---- MODULE Spec2Model ----
(***************************************************************************)
(* Order-notification processor of prom_order_manager (main.py,            *)
(* prom_client.py): the processed-order ledger, the startup mode, the      *)
(* polling cycle (file check, auto-accept, order scan) and the per-order   *)
(* notification pipeline, together with the upstream marketplace whose     *)
(* orders it polls and the process restarts that reload the ledger.        *)
(***************************************************************************)
EXTENDS Integers, Sequences, FiniteSets, TLC

\* ---- bounds of the model ----
NumOrders == 1
NumShops == 2
MaxItems == 2
MaxCycles == 3

Orders == 1..NumOrders
Shops == 1..NumShops

\* main.py:35
TARGET_STATUSES == <<"received", "processing", "custom-133340">>

\* statuses an upstream order can be in; "delivered" stands for every status
\* that neither the pending fetch nor a monitored fetch returns
Statuses == {"pending", "received", "processing", "custom-133340", "delivered"}

\* the shop (credential) an order belongs to, and its number of line items
ShopOf(o) == ((o - 1) % NumShops) + 1
ItemsOf(o) == MaxItems - ((o - 1) % (MaxItems + 1))

\* str(order.get("id")): the ledger holds strings
IdStr(o) == ToString(o)

VARIABLES
    order_status,      \* upstream: status of each order
    order_ttn,         \* upstream: whether the order exposes a shipping reference
    ledger_file,       \* processed_orders.json: [state, ids]
    pc,                \* position of the process
    processed_orders,  \* self.processed_orders; while the process is off, the
                       \* set its last run held when it ended
    startup_mode,      \* self.startup_mode (while off: of the last run)
    shop,              \* index of the client the current loop is at
    tstatus,           \* index into TARGET_STATUSES of the current fetch
    queue,             \* fetched orders still to be handled (snapshots)
    item,              \* line item the per-order loop is at
    cycle,             \* number of the polling cycle within this run
    notified,          \* history: "no", or a dispatch was made for the order
                       \* in the current cycle only ("now"), in one earlier
                       \* cycle only ("before"), in more than one ("again")
    accounted,         \* history: orders whose line-item dispatch loop ran to
                       \* its end, or whose notification was suppressed by the
                       \* startup mode or by the first-run seeding
    delivered,         \* history, kept by the specification of the deliveries
                       \* only: [kept, orders], the orders for whose first
                       \* line item a message (photo or text) was delivered
    seeded,            \* history: a first-run seeding has been performed
                       \* (its fetches and its write) by some process start
    accepted,          \* history: orders that auto-accept moved from pending
                       \* to received in the current cycle and that are still
                       \* in that status
    call,              \* the last call of a helper that was applied on its
                       \* own, or the last update that was handled: its
                       \* arguments and what came of it
    last_update_id,    \* self.last_update_id
    local_notes,       \* self.local_notes: the fallback store
    notes_files,       \* prom_import_data.json and the legacy spreadsheet:
                       \* [json, excel], each [state, notes]
    updates,           \* the messaging platform: the id of its next update
                       \* and the updates it still holds, oldest first
    batch,             \* what get_updates returned and the loop of
                       \* check_telegram_updates has still to go through
    ev                 \* outbound calls issued by the last step

vars == <<order_status, order_ttn, ledger_file, pc, processed_orders,
          startup_mode, shop, tstatus, queue, item, cycle,
          notified, accounted, delivered, seeded, accepted, call,
          last_update_id,
          local_notes, notes_files, updates, batch, ev>>

upstream == <<order_status, order_ttn>>
history == <<notified, accounted, delivered>>
bot == <<last_update_id, local_notes, notes_files, updates, batch>>
aside == <<seeded, call, bot>>

\* ---- helpers ----
Range(s) == {s[i] : i \in 1..Len(s)}

RECURSIVE SetToSeq(_)
SetToSeq(S) ==
    IF S = {} THEN <<>>
    ELSE LET x == CHOOSE y \in S : TRUE IN <<x>> \o SetToSeq(S \ {x})

RECURSIVE Ascending(_)
Ascending(S) ==
    IF S = {} THEN <<>>
    ELSE LET m == CHOOSE x \in S : \A y \in S : x <= y
         IN <<m>> \o Ascending(S \ {m})

\* json.dump(list(self.processed_orders), f): every element once
JsonList(S) == SetToSeq(S)

NoCall == [fn |-> "none"]

\* the deliveries are not recorded
NotKept == [kept |-> FALSE, orders |-> {}]

NoEv == [op |-> "none", by |-> "none", order |-> 0, item |-> 0,
         photos |-> 0, texts |-> 0, photoOk |-> FALSE, textOk |-> FALSE,
         photoMsg |-> <<>>, textMsg |-> <<>>, res |-> "none", arg |-> "none",
         src |-> "none"]

\* ---- the marketplace gateway (prom_client.py) ----
FetchOutcomes == {"ok", "soft", "raise"}
StatusOutcomes == {"true", "false", "raise"}
ProductOutcomes == {"product", "absent", "raise"}
WriteOutcomes == {"ok", "fail", "torn"}

\* the orders of shop s that are in status st, as the response lists them
Visible(s, st) ==
    {o \in DOMAIN order_status : ShopOf(o) = s /\ order_status[o] = st}

\* PromClient.get_orders when it returns: the list, or [] on a transport error
get_orders(s, st, out) ==
    IF out = "ok"
    THEN LET ids == Ascending(Visible(s, st))
         IN [i \in 1..Len(ids) |-> [id |-> ids[i], ttn |-> order_ttn[ids[i]]]]
    ELSE <<>>

\* PromClient.set_order_status: what the call does to the upstream order.
\* A failed call changes nothing; an accepted call moves the order unless the
\* marketplace answered with a warning only.
set_order_status(st, o, target, res, applied) ==
    IF res # "false" /\ applied THEN [st EXCEPT ![o] = target] ELSE st

\* ---- the ledger ----
\* _load_processed_orders: set(json.load(f)), set() when the file is
\* missing or does not parse
_load_processed_orders(file) ==
    IF file.state = "ok" THEN Range(file.ids) ELSE {}

\* _save_processed_order, first statement
LedgerAdd(mem, id) == mem \cup {IdStr(id)}

\* variant: the write appends the set to the list already in the file
LedgerWrite_appending(file, mem, w) ==
    CASE w = "ok" -> [state |-> "ok", ids |-> file.ids \o JsonList(mem)]
      [] w = "fail" -> file
      [] OTHER -> [state |-> "corrupt", ids |-> <<>>]

\* _save_processed_order, the write of the whole set: "fail" is an open() that
\* raises, "torn" a dump that raises after the file was truncated
LedgerWrite(file, mem, w) ==
    CASE w = "ok" -> [state |-> "ok", ids |-> JsonList(mem)]
      [] w = "fail" -> file
      [] OTHER -> [state |-> "corrupt", ids |-> <<>>]

\* _save_processed_order(order_id): the add, then the write of the whole set
_save_processed_order(mem, file, id, w) ==
    LET added == LedgerAdd(mem, id)
    IN [mem |-> added, file |-> LedgerWrite(file, added, w)]

\* ---- decisions of _process_single_order ----
\* variant: the ledger is not consulted
AlreadyProcessed_never(id) == FALSE

\* line 238
AlreadyProcessed(id) == IdStr(id) \in processed_orders

\* variant: the shipping reference is not required
HasTtn_always(order) == TRUE

\* lines 241-243: the snapshot carries what _extract_ttn finds
HasTtn(order) == order.ttn

\* variant: the startup mode is ignored
SilentStartup_ignored == FALSE

\* line 249
SilentStartup == startup_mode

\* line 320: the message of a line item, built once
Message(o, i) == <<o, i>>

\* variant: the text send is made for items without image only
SendItem_noFallback(image, photoOk, textOk) ==
    LET sent_photo == image /\ photoOk
    IN [photos |-> IF image THEN 1 ELSE 0,
        texts |-> IF ~image THEN 1 ELSE 0,
        photoOk |-> sent_photo,
        textOk |-> ~image /\ textOk]

\* lines 338-353: the send calls of one line item
SendItem(image, photoOk, textOk) ==
    LET sent_photo == image /\ photoOk
    IN [photos |-> IF image THEN 1 ELSE 0,
        texts |-> IF ~sent_photo THEN 1 ELSE 0,
        photoOk |-> sent_photo,
        textOk |-> ~sent_photo /\ textOk]

\* variant: the loop over the line items ends after the first one
ItemsDone_first(o, i) == TRUE

\* line 259: the for loop has gone through the last line item
ItemsDone(o, i) == i >= ItemsOf(o)

\* variant: the ledger add is made only after a successful status call
MarksProcessed_onSuccess(res) == res = "true"

\* lines 356-361: the ledger add follows whenever set_order_status returns
MarksProcessed(res) == res \in {"true", "false"}

\* variant: the flag is left as it is
StartupAfterCycle_kept == TRUE

\* lines 423-424
StartupAfterCycle == FALSE

\* ---- loading the persisted files ----
\* a file is missing, holds what is expected, does not parse, or cannot be
\* opened or decoded
FileStates == {"absent", "ok", "corrupt", "unreadable"}

\* _load_processed_orders: the exceptions that lines 146-150 do not catch
LoadRaises(file) == file.state = "unreadable"

\* _load_local_notes: which source the mapping comes from
_load_local_notes(json_state, excel_state) ==
    IF json_state = "ok" THEN "json"
    ELSE IF excel_state = "ok" THEN "excel"
    ELSE "empty"

\* the mapping that _load_local_notes returns, lines 88-121
LoadNotes(files) ==
    LET from == _load_local_notes(files.json.state, files.excel.state)
    IN IF from = "json" THEN files.json.notes
       ELSE IF from = "excel" THEN files.excel.notes
       ELSE <<>>

\* neither prom_import_data.json nor the legacy spreadsheet exists
NoNotesFiles == [json |-> [state |-> "absent", notes |-> <<>>],
                 excel |-> [state |-> "absent", notes |-> <<>>]]

\* no update has been sent yet
NoUpdates == [next |-> 1, pending |-> <<>>]

\* ---- positions ----
\* variant: an exception ends the scan of every shop
NextShop_endsAll(s, endpc) == [pc |-> endpc, shop |-> 1, t |-> 1]

\* variant: the order scan runs before auto-accept
StepAfter_scanFirst(step) ==
    CASE step = "updates" -> "scan"
      [] step = "scan" -> "accept"
      [] OTHER -> "cycle_end"

\* run(), lines 418-420: the step that follows a step of the cycle
StepAfter(step) ==
    CASE step = "updates" -> "accept"
      [] step = "accept" -> "scan"
      [] OTHER -> "cycle_end"

NextPos(s, t, endpc) ==
    IF t < Len(TARGET_STATUSES) THEN [pc |-> "fetch", shop |-> s, t |-> t + 1]
    ELSE IF s < NumShops THEN [pc |-> "fetch", shop |-> s + 1, t |-> 1]
    ELSE [pc |-> endpc, shop |-> 1, t |-> 1]

NextShop(s, endpc) ==
    IF s < NumShops THEN [pc |-> "fetch", shop |-> s + 1, t |-> 1]
    ELSE [pc |-> endpc, shop |-> 1, t |-> 1]

Goto(pos, herepc) ==
    /\ pc' = IF pos.pc = "fetch" THEN herepc ELSE pos.pc
    /\ shop' = pos.shop
    /\ tstatus' = pos.t

\* positions inside OrderProcessor.__init__
Constructing == {"seed", "seed_write"}

\* the process ends; a process that ends inside its constructor never had a
\* ledger of its own
Stopped ==
    /\ pc' = "off"
    /\ processed_orders' = IF pc \in Constructing THEN {} ELSE processed_orders
    /\ UNCHANGED startup_mode
    /\ shop' = 1
    /\ tstatus' = 1
    /\ queue' = <<>>
    /\ item' = 0
    /\ cycle' = 0
    /\ accepted' = {}

Init ==
    /\ order_status \in [Orders -> Statuses]
    /\ order_ttn \in [Orders -> BOOLEAN]
    /\ ledger_file = [state |-> "absent", ids |-> <<>>]
    /\ pc = "off"
    /\ processed_orders = {}
    /\ startup_mode = TRUE
    /\ shop = 1
    /\ tstatus = 1
    /\ queue = <<>>
    /\ item = 0
    /\ cycle = 0
    /\ notified = [o \in Orders |-> "no"]
    /\ accounted = {}
    /\ delivered = NotKept
    /\ seeded = FALSE
    /\ accepted = {}
    /\ call = NoCall
    /\ last_update_id = 0
    /\ local_notes = <<>>
    /\ notes_files = NoNotesFiles
    /\ updates = NoUpdates
    /\ batch = <<>>
    /\ ev = NoEv

\* ---- construction ----
\* OrderProcessor.__init__
Construct ==
    /\ pc = "off"
    /\ processed_orders' = _load_processed_orders(ledger_file)
    /\ startup_mode' = TRUE
    /\ pc' = IF processed_orders' = {} THEN "seed" ELSE "startmsg"
    /\ shop' = 1
    /\ tstatus' = 1
    /\ local_notes' = LoadNotes(notes_files)
    /\ last_update_id' = 0
    /\ ev' = NoEv
    /\ UNCHANGED <<upstream, ledger_file, queue, item, cycle, notified, accounted,
                   delivered>>
    /\ UNCHANGED <<seeded, call, accepted, notes_files, updates, batch>>

\* _mark_current_orders_processed, one get_orders call and its inner loop
SeedFetch ==
    /\ pc = "seed"
    /\ \E out \in FetchOutcomes :
        IF out = "raise"
        THEN /\ Goto(NextShop(shop, "seed_write"), "seed")
             /\ UNCHANGED processed_orders
        ELSE LET orders == get_orders(shop, TARGET_STATUSES[tstatus], out)
                 ids == {orders[i].id : i \in 1..Len(orders)}
             IN /\ processed_orders' = processed_orders \cup {IdStr(o) : o \in ids}
                /\ Goto(NextPos(shop, tstatus, "seed_write"), "seed")
    /\ ev' = NoEv
    /\ UNCHANGED <<upstream, ledger_file, startup_mode, queue, item, cycle,
                   history>>
    /\ UNCHANGED <<aside, accepted>>

\* _mark_current_orders_processed, the write after the loops; an exception
\* leaves __init__ and ends the process (ev.op = "fatal")
SeedWrite ==
    /\ pc = "seed_write"
    /\ \E w \in WriteOutcomes :
        /\ ledger_file' = LedgerWrite(ledger_file, processed_orders, w)
        /\ IF w = "ok"
           THEN /\ pc' = "startmsg"
                /\ accounted' = accounted
                                  \cup {o \in Orders : IdStr(o) \in processed_orders}
                /\ seeded' = TRUE
                /\ UNCHANGED <<processed_orders, startup_mode, shop, tstatus,
                               queue, item, cycle, accepted>>
           ELSE /\ Stopped
                /\ UNCHANGED <<accounted, seeded>>
        /\ ev' = IF w = "ok" THEN NoEv ELSE [NoEv EXCEPT !.op = "fatal"]
    /\ UNCHANGED <<upstream, notified, delivered, call, bot>>

\* run(), the startup message
RunStart ==
    /\ pc = "startmsg"
    /\ pc' = "loop"
    /\ ev' = NoEv
    /\ UNCHANGED <<upstream, ledger_file, processed_orders, startup_mode, shop,
                   tstatus, queue, item, cycle, notified, accounted,
                   delivered>>
    /\ UNCHANGED <<aside, accepted>>

\* ---- the polling cycle ----
\* run(), top of the while loop
BeginCycle ==
    /\ pc = "loop"
    /\ cycle < MaxCycles
    /\ pc' = "updates"
    /\ cycle' = cycle + 1
    /\ notified' = [o \in Orders |-> IF notified[o] = "now" THEN "before" ELSE notified[o]]
    /\ ev' = NoEv
    /\ UNCHANGED <<upstream, ledger_file, processed_orders, startup_mode, shop,
                   tstatus, queue, item, accounted, delivered>>
    /\ UNCHANGED <<aside, accepted>>

\* variant: the poll asks from the last handled update on
Offset_last(id) == id

\* line 369: offset=self.last_update_id + 1
Offset(id) == id + 1

\* bot.get_updates(offset): the updates with an id from offset on, oldest
\* first; the platform drops the ones before offset
get_updates(offset) ==
    SelectSeq(updates.pending, LAMBDA u : u.update_id >= offset)

\* check_telegram_updates, line 369: the poll; an exception of get_updates is
\* swallowed at line 399 and nothing is handled
CheckTelegramUpdates ==
    /\ pc = "updates"
    /\ \E out \in {"ok", "raise"} :
        LET got == IF out = "ok" THEN get_updates(Offset(last_update_id))
                   ELSE <<>>
        IN /\ batch' = got
           /\ updates' = IF out = "ok" THEN [updates EXCEPT !.pending = got]
                         ELSE updates
           /\ pc' = IF got = <<>> THEN StepAfter("updates") ELSE "updating"
    /\ shop' = 1
    /\ ev' = NoEv
    /\ UNCHANGED <<upstream, ledger_file, processed_orders, startup_mode,
                   tstatus, queue, item, cycle, notified, accounted,
                   delivered>>
    /\ UNCHANGED <<seeded, call, accepted, last_update_id, local_notes,
                   notes_files>>

\* auto_accept_new_orders, the pending fetch of one client
AutoAcceptFetch ==
    /\ pc = "accept"
    /\ \E out \in FetchOutcomes :
        LET orders == get_orders(shop, "pending", out)
        IN IF out = "raise" \/ orders = <<>>
           THEN /\ Goto(NextShop(shop, StepAfter("accept")), "accept")
                /\ queue' = <<>>
           ELSE /\ pc' = "accepting"
                /\ queue' = orders
                /\ UNCHANGED <<shop, tstatus>>
    /\ ev' = NoEv
    /\ UNCHANGED <<upstream, ledger_file, processed_orders, startup_mode, item,
                   cycle, notified, accounted,
                   delivered>>
    /\ UNCHANGED <<aside, accepted>>

\* auto_accept_new_orders, the body of the inner loop
AutoAcceptOrder ==
    /\ pc = "accepting"
    /\ LET o == Head(queue).id
       IN \E res \in StatusOutcomes, applied \in BOOLEAN :
            /\ res = "false" => ~applied
            /\ order_status' = set_order_status(order_status, o, "received", res, applied)
            /\ accepted' = IF order_status'[o] # order_status[o]
                            THEN accepted \cup {o} ELSE accepted
            /\ ev' = [NoEv EXCEPT !.op = "status", !.by = "accept", !.order = o,
                                  !.res = res, !.arg = "received", !.src = "pending"]
            /\ IF res = "raise" \/ Tail(queue) = <<>>
               THEN /\ Goto(NextShop(shop, StepAfter("accept")), "accept")
                    /\ queue' = <<>>
               ELSE /\ queue' = Tail(queue)
                    /\ UNCHANGED <<pc, shop, tstatus>>
    /\ UNCHANGED <<order_ttn, ledger_file, processed_orders, startup_mode,
                   item, cycle, notified, accounted,
                   delivered>>
    /\ UNCHANGED aside

\* process_orders, one get_orders call
ScanFetch ==
    /\ pc = "scan"
    /\ \E out \in FetchOutcomes :
        /\ LET orders == get_orders(shop, TARGET_STATUSES[tstatus], out)
           IN IF out = "raise"
           THEN /\ Goto(NextShop(shop, StepAfter("scan")), "scan")
                /\ queue' = <<>>
           ELSE IF orders = <<>>
           THEN /\ Goto(NextPos(shop, tstatus, StepAfter("scan")), "scan")
                /\ queue' = <<>>
           ELSE /\ pc' = "orders"
                /\ queue' = orders
                /\ UNCHANGED <<shop, tstatus>>
        /\ ev' = NoEv
    /\ UNCHANGED <<upstream, ledger_file, processed_orders, startup_mode, item,
                   cycle, notified, accounted,
                   delivered>>
    /\ UNCHANGED <<aside, accepted>>

\* the inner loop of process_orders moves on to the next order
NextOrder ==
    IF Tail(queue) = <<>>
    THEN /\ Goto(NextPos(shop, tstatus, StepAfter("scan")), "scan")
         /\ queue' = <<>>
         /\ item' = 0
    ELSE /\ pc' = "orders"
         /\ queue' = Tail(queue)
         /\ item' = 0
         /\ UNCHANGED <<shop, tstatus>>

\* an exception leaves _process_single_order: process_orders logs it and goes
\* on with the next client
ShopAborted ==
    /\ Goto(NextShop(shop, StepAfter("scan")), "scan")
    /\ queue' = <<>>
    /\ item' = 0

\* _process_single_order up to the line-item loop
ProcessSingleOrder ==
    /\ pc = "orders"
    /\ LET order == Head(queue)
           o == order.id
           here == [NoEv EXCEPT !.by = "scan", !.order = o,
                                !.src = TARGET_STATUSES[tstatus]]
       IN IF AlreadyProcessed(o)
          THEN /\ NextOrder
               /\ ev' = [here EXCEPT !.op = "skip", !.res = "ledger"]
               /\ UNCHANGED <<ledger_file, processed_orders, accounted>>
          ELSE IF ~HasTtn(order)
          THEN /\ NextOrder
               /\ ev' = [here EXCEPT !.op = "skip", !.res = "no_ttn"]
               /\ UNCHANGED <<ledger_file, processed_orders, accounted>>
          ELSE IF SilentStartup
          THEN \E w \in WriteOutcomes :
                LET saved == _save_processed_order(processed_orders, ledger_file, o, w)
                IN /\ processed_orders' = saved.mem
                   /\ ledger_file' = saved.file
                   /\ accounted' = accounted \cup {o}
                   /\ ev' = [here EXCEPT !.op = "silent", !.res = w]
                   /\ IF w = "ok" THEN NextOrder ELSE ShopAborted
          ELSE /\ pc' = IF ItemsOf(o) = 0 THEN "finish" ELSE "items"
               /\ item' = 1
               /\ ev' = NoEv
               /\ UNCHANGED <<ledger_file, processed_orders, accounted, shop,
                              tstatus, queue>>
    /\ UNCHANGED <<upstream, startup_mode, cycle, notified, delivered>>
    /\ UNCHANGED <<aside, accepted>>

\* _process_single_order, one pass of the line-item loop
DispatchItem ==
    /\ pc = "items"
    /\ LET o == Head(queue).id
       IN \E prod \in ProductOutcomes, hasImage, photoOk, textOk \in BOOLEAN :
            IF prod = "raise"
            THEN /\ ShopAborted
                 /\ ev' = NoEv
                 /\ UNCHANGED <<notified, delivered>>
            ELSE LET image == prod = "product" /\ hasImage
                     r == SendItem(image, photoOk, textOk)
                     message == Message(o, item)
                 IN /\ ev' = [NoEv EXCEPT !.op = "dispatch", !.by = "scan",
                                !.order = o, !.item = item,
                                !.src = TARGET_STATUSES[tstatus],
                                !.photos = r.photos, !.texts = r.texts,
                                !.photoOk = r.photoOk, !.textOk = r.textOk,
                                !.photoMsg = IF r.photos > 0 THEN message ELSE <<>>,
                                !.textMsg = IF r.texts > 0 THEN message ELSE <<>>]
                    /\ notified' = [notified EXCEPT ![o] =
                                    IF @ \in {"before", "again"} THEN "again" ELSE "now"]
                    /\ delivered' =
                          IF delivered.kept /\ item = 1 /\ (r.photoOk \/ r.textOk)
                          THEN [delivered EXCEPT !.orders = @ \cup {o}]
                          ELSE delivered
                    /\ IF ~ItemsDone(o, item)
                       THEN /\ item' = item + 1
                            /\ UNCHANGED <<pc, shop, tstatus, queue>>
                       ELSE /\ pc' = "finish"
                            /\ UNCHANGED <<item, shop, tstatus, queue>>
    /\ UNCHANGED <<upstream, ledger_file, processed_orders, startup_mode,
                   cycle, accounted>>
    /\ UNCHANGED <<aside, accepted>>

\* _process_single_order after the loop: the status call and the ledger add
FinishOrder ==
    /\ pc = "finish"
    /\ LET o == Head(queue).id
       IN \E res \in StatusOutcomes, applied \in BOOLEAN, w \in WriteOutcomes :
            /\ res = "false" => ~applied
            /\ order_status' = set_order_status(order_status, o, "received", res, applied)
            /\ ev' = [NoEv EXCEPT !.op = "status", !.by = "scan", !.order = o,
                                  !.res = res, !.arg = "received",
                                  !.src = TARGET_STATUSES[tstatus]]
            /\ accounted' = accounted \cup {o}
            /\ IF MarksProcessed(res)
               THEN LET saved == _save_processed_order(processed_orders, ledger_file, o, w)
                    IN /\ processed_orders' = saved.mem
                       /\ ledger_file' = saved.file
                       /\ IF w = "ok" THEN NextOrder ELSE ShopAborted
               ELSE /\ w = "ok"
                    /\ ShopAborted
                    /\ UNCHANGED <<processed_orders, ledger_file>>
    /\ UNCHANGED <<order_ttn, startup_mode, cycle, notified, delivered>>
    /\ UNCHANGED <<aside, accepted>>

\* run(), the end of the try block and the sleep
CycleEnd ==
    /\ pc = "cycle_end"
    /\ startup_mode' = IF startup_mode THEN StartupAfterCycle ELSE startup_mode
    /\ pc' = "loop"
    /\ ev' = NoEv
    /\ UNCHANGED <<upstream, ledger_file, processed_orders, shop, tstatus,
                   queue, item, cycle, notified, accounted,
                   delivered>>
    /\ accepted' = {}
    /\ UNCHANGED aside

\* ---- the environment ----
\* the process is terminated from outside
Terminate ==
    /\ pc # "off"
    /\ Stopped
    /\ ev' = NoEv
    /\ UNCHANGED <<upstream, ledger_file, notified, accounted,
                   delivered>>
    /\ UNCHANGED aside

\* upstream changes are seen by the process at its next fetch only
AtFetchBoundary == pc \in {"off", "seed", "loop", "accept", "scan"}

\* the seller enters the shipping reference of an order
AssignTtn ==
    /\ AtFetchBoundary
    /\ \E o \in Orders :
        /\ ~order_ttn[o]
        /\ order_ttn' = [order_ttn EXCEPT ![o] = TRUE]
    /\ ev' = NoEv
    /\ UNCHANGED <<order_status, ledger_file, pc, processed_orders,
                   startup_mode, shop, tstatus, queue, item, cycle, notified, accounted,
                   delivered>>
    /\ UNCHANGED <<aside, accepted>>

\* the status of an order is changed upstream (customer, seller, marketplace)
UpstreamStatus ==
    /\ AtFetchBoundary
    /\ \E o \in Orders, st \in Statuses :
        /\ st # order_status[o]
        /\ order_status' = [order_status EXCEPT ![o] = st]
        /\ accepted' = accepted \ {o}
    /\ ev' = NoEv
    /\ UNCHANGED <<order_ttn, ledger_file, pc, processed_orders, startup_mode,
                   shop, tstatus, queue, item, cycle, notified, accounted,
                   delivered>>
    /\ UNCHANGED aside

Next ==
    \/ Construct
    \/ SeedFetch
    \/ SeedWrite
    \/ RunStart
    \/ BeginCycle
    \/ CheckTelegramUpdates
    \/ AutoAcceptFetch
    \/ AutoAcceptOrder
    \/ ScanFetch
    \/ ProcessSingleOrder
    \/ DispatchItem
    \/ FinishOrder
    \/ CycleEnd
    \/ Terminate
    \/ AssignTtn
    \/ UpstreamStatus

Spec == Init /\ [][Next]_vars

TypeOK ==
    /\ processed_orders \subseteq {IdStr(o) : o \in Orders}
    /\ startup_mode \in BOOLEAN
    /\ ledger_file.state \in {"absent", "ok", "corrupt"}

\* ---- the ledger on its own ----
\* ids the ledger operations are applied to
NumIds == 3
LedgerIds == 1..NumIds

Count(x, seq) == Cardinality({i \in 1..Len(seq) : seq[i] = x})

\* the ledger of a running process and its file: the file is missing,
\* unparsable, or the dump of an earlier value of the set
LedgerInit ==
    /\ processed_orders \in SUBSET {IdStr(i) : i \in LedgerIds}
    /\ ledger_file \in
          {[state |-> st, ids |-> <<>>] : st \in {"absent", "corrupt"}}
          \cup {[state |-> "ok", ids |-> JsonList(S)] : S \in SUBSET processed_orders}
    /\ order_status = [o \in Orders |-> "delivered"]
    /\ order_ttn = [o \in Orders |-> FALSE]
    /\ pc = "loop"
    /\ startup_mode = FALSE
    /\ shop = 1
    /\ tstatus = 1
    /\ queue = <<>>
    /\ item = 0
    /\ cycle = MaxCycles
    /\ notified = [o \in Orders |-> "no"]
    /\ accounted = {}
    /\ delivered = NotKept
    /\ seeded = TRUE
    /\ accepted = {}
    /\ call = NoCall
    /\ last_update_id = 0
    /\ local_notes = <<>>
    /\ notes_files = NoNotesFiles
    /\ updates = NoUpdates
    /\ batch = <<>>
    /\ ev = NoEv

\* one call of _save_processed_order; ev.item counts up to the second of two
\* consecutive calls for the same id that both returned
LedgerSave ==
    /\ \E id \in LedgerIds, w \in WriteOutcomes :
        LET saved == _save_processed_order(processed_orders, ledger_file, id, w)
            again == ev.op = "save" /\ ev.order = id /\ ev.res = "ok"
        IN /\ processed_orders' = saved.mem
           /\ ledger_file' = saved.file
           /\ ev' = [NoEv EXCEPT !.op = "save", !.order = id, !.res = w,
                                 !.item = IF again THEN 2 ELSE 1]
    /\ UNCHANGED <<upstream, pc, startup_mode, shop, tstatus, queue, item,
                   cycle, history>>
    /\ UNCHANGED <<aside, accepted>>

LedgerNext == LedgerSave

SpecLedger == LedgerInit /\ [][LedgerNext]_vars

\* ---- text ----
\* A text is the sequence of its characters; a character outside ASCII is
\* written as its code point. None is Python's None; it is not a text.
None == <<"None">>

\* truth value of a text or None ("if note", "if not private_note")
Truthy(x) == x # None /\ x # <<>>

\* a or b
Or(a, b) == IF Truthy(a) THEN a ELSE b

\* str.lower() on one character
LowerChar(c) ==
    CASE c = "A" -> "a"
      [] c = "B" -> "b"
      [] c = "C" -> "c"
      [] c = "D" -> "d"
      [] c = "E" -> "e"
      [] c = "F" -> "f"
      [] c = "G" -> "g"
      [] c = "H" -> "h"
      [] c = "I" -> "i"
      [] c = "J" -> "j"
      [] c = "K" -> "k"
      [] c = "L" -> "l"
      [] c = "M" -> "m"
      [] c = "N" -> "n"
      [] c = "O" -> "o"
      [] c = "P" -> "p"
      [] c = "Q" -> "q"
      [] c = "R" -> "r"
      [] c = "S" -> "s"
      [] c = "T" -> "t"
      [] c = "U" -> "u"
      [] c = "V" -> "v"
      [] c = "W" -> "w"
      [] c = "X" -> "x"
      [] c = "Y" -> "y"
      [] c = "Z" -> "z"
      [] c = "U+00DC" -> "U+00FC"
      [] c = "U+03A9" -> "U+03C9"
      [] c = "U+00C4" -> "U+00E4"
      [] c = "U+00C7" -> "U+00E7"
      [] c = "U+00C5" -> "U+00E5"
      [] OTHER -> c

\* str.lower()
lower(s) == [i \in 1..Len(s) |-> LowerChar(s[i])]

RECURSIVE lstrip(_)
lstrip(s) == IF s # <<>> /\ Head(s) = " " THEN lstrip(Tail(s)) ELSE s

RECURSIVE rstrip(_)
rstrip(s) ==
    IF s # <<>> /\ s[Len(s)] = " " THEN rstrip(SubSeq(s, 1, Len(s) - 1)) ELSE s

\* str.strip()
strip(s) == rstrip(lstrip(s))

\* str.startswith(prefix)
startswith(s, prefix) ==
    Len(prefix) <= Len(s) /\ SubSeq(s, 1, Len(prefix)) = prefix

\* positions of character c in s
Positions(s, c) == {i \in 1..Len(s) : s[i] = c}

\* str.find and str.rfind, counted from 1; 0 when c does not occur
Find(s, c) ==
    IF Positions(s, c) = {} THEN 0
    ELSE CHOOSE i \in Positions(s, c) : \A j \in Positions(s, c) : i <= j

RFind(s, c) ==
    IF Positions(s, c) = {} THEN 0
    ELSE CHOOSE i \in Positions(s, c) : \A j \in Positions(s, c) : i >= j

\* s.split(c)
RECURSIVE split(_, _)
split(s, c) ==
    LET i == Find(s, c)
    IN IF i = 0 THEN <<s>>
       ELSE <<SubSeq(s, 1, i - 1)>> \o split(SubSeq(s, i + 1, Len(s)), c)

\* s.split(c, 1)[1] for a text that holds c
AfterFirst(s, c) == SubSeq(s, Find(s, c) + 1, Len(s))

\* s.rsplit(c, 1)[0] for a text that holds c
BeforeLast(s, c) == SubSeq(s, 1, RFind(s, c) - 1)

\* sep.join(parts)
RECURSIVE join(_, _)
join(parts, sep) ==
    IF parts = <<>> THEN <<>>
    ELSE IF Len(parts) = 1 THEN parts[1]
    ELSE parts[1] \o sep \o join(Tail(parts), sep)

\* ---- _parse_private_note ----
\* the labels of lines 185, 187 and 193, as the source spells them
PriceLabels == {<<"p", "r", "i", "c", "e", ":">>,
                <<"U+2014", "U+00DC", "U+2013", "U+00B5", "U+2013", "U+03A9", "U+2013", "U+221E", ":">>}
ArtLabels == {<<"a", "r", "t", ":">>,
              <<"U+2013", "U+221E", "U+2014", "U+00C4", "U+2014", "U+00C7", ":">>}
SupplierLabels == {<<"s", "u", "p", "p", "l", "i", "e", "r", ":">>,
                   <<"U+2013", "U+00F8", "U+2013", "U+00E6", "U+2014", "U+00C5", "U+2014", "U+00C7", "U+2013", "U+221E", "U+2013", "U+2264", "U+2014", "U+00E2", "U+2013", "U+220F", "U+2013", "U+222B", ":">>}

\* part_lower.startswith(a) or part_lower.startswith(b)
HasLabel(part_lower, labels) == \E l \in labels : startswith(part_lower, l)

\* " | ", line 199
Separator == <<" ", "|", " ">>

\* the default of line 306
UNKNOWN_SUPPLIER == <<"U+2013", "U+00F9", "U+2013", "U+00B5", "U+2013", "U+220F", "U+2013", "U+2211", "U+2013", "U+2264", "U+2013", "U+00B5", "U+2014", "U+00C5", "U+2014", "U+00C7", "U+2013", "U+03A9", "U+2014", "U+00E3", "U+2013", "U+03C0", " ", "U+2013", "U+00F8", "U+2013", "U+00E6", "U+2014", "U+00C5", "U+2014", "U+00C7", "U+2013", "U+221E", "U+2013", "U+2264", "U+2014", "U+00E2", "U+2013", "U+220F", "U+2013", "U+222B">>

\* dict.get(key, default); a dict is a function on the keys it holds
Get(d, key, default) == IF key \in DOMAIN d THEN d[key] ELSE default

\* data = {}
EmptyDict == [k \in {} |-> <<>>]

\* variant: every remaining segment is appended
Accumulates_always(clean_part) == TRUE

\* line 196: if clean_part
Accumulates(clean_part) == clean_part # <<>>

\* lines 183-197: the loop over the parts
RECURSIVE ParseParts(_, _, _)
ParseParts(parts, data, supplier_parts) ==
    IF parts = <<>> THEN [data |-> data, supplier_parts |-> supplier_parts]
    ELSE LET part == Head(parts)
             part_lower == lower(part)
         IN IF HasLabel(part_lower, PriceLabels)
            THEN ParseParts(Tail(parts),
                            ("purchase_price" :> strip(AfterFirst(part, ":"))) @@ data,
                            supplier_parts)
            ELSE IF HasLabel(part_lower, ArtLabels)
            THEN ParseParts(Tail(parts),
                            ("model" :> strip(AfterFirst(part, ":"))) @@ data,
                            supplier_parts)
            ELSE LET clean_part == IF HasLabel(part_lower, SupplierLabels)
                                   THEN strip(AfterFirst(part, ":"))
                                   ELSE part
                 IN ParseParts(Tail(parts), data,
                               IF Accumulates(clean_part)
                               THEN Append(supplier_parts, clean_part)
                               ELSE supplier_parts)

\* _parse_private_note(note)
_parse_private_note(note) ==
    IF ~Truthy(note) THEN EmptyDict
    ELSE LET segments == split(note, "|")
             parts == [i \in 1..Len(segments) |-> strip(segments[i])]
             r == ParseParts(parts, EmptyDict, <<>>)
         IN ("supplier" :> join(r.supplier_parts, Separator)) @@ r.data

\* line 306: the supplier line of the message
SupplierLine(note_data) == Get(note_data, "supplier", UNKNOWN_SUPPLIER)

\* ---- the fallback store and the note of a line item ----
\* self.local_notes: the entries of the snapshot in their stored order
DictGet(items, key, default) ==
    IF \E i \in 1..Len(items) : items[i].key = key
    THEN items[CHOOSE i \in 1..Len(items) : items[i].key = key].note
    ELSE default

\* variant: the text before the first '-'
BaseSku_first(sku) == SubSeq(sku, 1, Find(sku, "-") - 1)

\* line 288: sku.rsplit("-", 1)[0]
BaseSku(sku) == BeforeLast(sku, "-")

\* lines 283-296: the store is asked for a SKU; steps lists what was consulted
LookupSku(notes, sku) ==
    LET direct == DictGet(notes, sku, <<>>)
    IN IF ~Truthy(direct) /\ Find(sku, "-") # 0
       THEN LET base_sku == BaseSku(sku)
                hits == {i \in 1..Len(notes) :
                            startswith(notes[i].key, base_sku)}
                first == CHOOSE i \in hits : \A j \in hits : i <= j
            IN [note |-> IF hits = {} THEN direct ELSE notes[first].note,
                steps |-> <<"exact", "fuzzy">>]
       ELSE [note |-> direct, steps |-> <<"exact">>]

\* lines 266 and 274: private_note or personal_notes or ""
NoteOf(product) == Or(Or(product.private_note, product.personal_notes), <<>>)

\* lines 263-296: the note of a line item, from what get_product returned for
\* the product (product_data) and for its parent (parent_data)
ResolveNote(product_data, parent_data, sku, notes) ==
    IF product_data.kind # "product" THEN [note |-> <<>>, steps |-> <<"own">>]
    ELSE LET own == NoteOf(product_data)
             asksParent == ~Truthy(own) /\ Truthy(product_data.variation_base_id)
             afterParent == IF asksParent /\ parent_data.kind = "product"
                            THEN NoteOf(parent_data) ELSE own
             asksStore == ~Truthy(afterParent) /\ Truthy(sku)
             looked == LookupSku(notes, sku)
         IN [note |-> IF asksStore THEN looked.note ELSE afterParent,
             steps |-> <<"own">>
                       \o (IF asksParent THEN <<"parent">> ELSE <<>>)
                       \o (IF asksStore THEN looked.steps ELSE <<>>)]

\* ---- the gateway's error handling ----
\* what an HTTP exchange can come to: no response, a status outside 2xx, a
\* 2xx body that is not JSON, a JSON body that is not an object, an object
\* that reports errors, an object
Responses == {"transport_error", "http_error", "invalid_json", "not_object",
              "errors", "object"}

\* what order.get("id") can be: digits, another text, None
OrderIdKinds == {"numeric", "non_numeric", "none"}

\* the try/except of get_orders (24-31), get_product (93-100) and
\* set_order_status (53-57, 68-86): "soft" is the value of an except branch
\* or of the errors check, "raise" an exception that leaves the method.
\* response.json() raises a RequestException or a plain ValueError depending
\* on the installed requests release.
GatewayReturns(fn, id_kind, response) ==
    IF fn = "set_order_status" /\ id_kind = "non_numeric" THEN {"soft"}
    ELSE IF fn = "set_order_status" /\ id_kind = "none" THEN {"raise"}
    ELSE CASE response \in {"transport_error", "http_error"} -> {"soft"}
           [] response = "invalid_json" -> {"soft", "raise"}
           [] response = "not_object" -> {"raise"}
           [] response = "errors" ->
                 IF fn = "set_order_status" THEN {"soft"} ELSE {"ok"}
           [] OTHER -> {"ok"}

\* ---- the helpers on their own ----
\* number of chunks a note is put together from, and of entries in the store
MaxChunks == 3
MaxKeys == 2

Chunks == {<<"|">>, <<" ">>, <<":">>,
           <<"P", "r", "i", "c", "e", ":">>,
           <<"a", "r", "t", ":">>,
           <<"S", "u", "p", "p", "l", "i", "e", "r", ":">>,
           <<"A", "c", "m", "e">>, <<"1", "0", "0">>}

RECURSIVE Concats(_)
Concats(n) ==
    IF n = 0 THEN {<<>>}
    ELSE LET shorter == Concats(n - 1)
         IN shorter \cup {s \o c : s \in shorter, c \in Chunks}

Example1 == <<"P", "r", "i", "c", "e", ":", " ", "1", "0", "0", " ", "|", " ", "S", "u", "p", "p", "l", "i", "e", "r", ":", " ", "A", "c", "m", "e", " ", "|", " ", "A", "r", "t", ":", " ", "X", "1">>
Example2 == <<"A", "c", "m", "e", " ", "C", "o", "r", "p", " ", "|", " ", "P", "r", "i", "c", "e", ":", " ", "1", "0", "0">>
Example3 == <<"U+2014", "U+00DC", "U+2013", "U+00B5", "U+2013", "U+03A9", "U+2013", "U+221E", ":", " ", "7">>

Notes == Concats(MaxChunks) \cup {None, Example1, Example2, Example3}

MIN_123_1 == <<"M", "I", "N", "-", "1", "2", "3", "-", "1">>
MIN_123_4 == <<"M", "I", "N", "-", "1", "2", "3", "-", "4">>
MIN_999_1 == <<"M", "I", "N", "-", "9", "9", "9", "-", "1">>
noteA == <<"n", "o", "t", "e", "A">>
noteB == <<"n", "o", "t", "e", "B">>

Skus == {MIN_123_1, MIN_123_4, MIN_999_1, <<"M", "I", "N", "-", "1">>, <<"M", "I", "N">>}
StoreNotes == {<<>>, noteA, noteB}

\* the stores: at most MaxKeys entries, no key twice
Stores ==
    UNION {{s \in [1..n -> [key : Skus, note : StoreNotes]] :
              \A i, j \in 1..n : i # j => s[i].key # s[j].key} : n \in 0..MaxKeys}

NoProduct == [kind |-> "none", private_note |-> None, personal_notes |-> None,
              variation_base_id |-> None]

\* what get_product returns: None, {} or the product
ProductData ==
    {NoProduct, [NoProduct EXCEPT !.kind = "empty"]}
    \cup [kind : {"product"}, private_note : {None, <<>>, <<"n", "o", "t", "e", "P">>},
          personal_notes : {None, <<"n", "o", "t", "e", "Q">>},
          variation_base_id : {None, <<"7">>}]

ParentData ==
    {NoProduct}
    \cup [kind : {"product"}, private_note : {None, <<"n", "o", "t", "e", "R">>},
          personal_notes : {None}, variation_base_id : {None}]

\* ---- the shipping reference of an order ----
\* variant: the key ttn is asked first
TtnKeys_ttnFirst == <<"ttn", "declaration_number", "invoice_number">>

\* line 164: the keys of delivery_provider_data, in the order they are asked
TtnKeys == <<"declaration_number", "ttn", "invoice_number">>

\* lines 164-166: the first value of the listed keys that is truthy
RECURSIVE FirstValue(_, _)
FirstValue(delivery_data, keys) ==
    IF keys = <<>> THEN None
    ELSE LET val == Get(delivery_data, Head(keys), None)
         IN IF Truthy(val) THEN val
            ELSE FirstValue(delivery_data, Tail(keys))

\* lines 158-168; delivery_provider_data is missing, null or a dict (items),
\* delivery_note is None when the order has no such key
_extract_ttn(order) ==
    LET delivery_data == order.delivery_provider_data
        val == IF delivery_data.kind = "dict" /\ DOMAIN delivery_data.items # {}
               THEN FirstValue(delivery_data.items, TtnKeys)
               ELSE None
    IN IF Truthy(val) THEN val ELSE order.delivery_note

\* the text that each key holds when it holds one
TtnValue == [declaration_number |-> <<"2", "0", "4", "5">>,
             ttn |-> <<"5", "9", "0", "0">>,
             invoice_number |-> <<"7", "7">>]

\* the dicts: any of the three keys, each with None, "" or its text
DeliveryDicts ==
    UNION {{d \in [K -> {None, <<>>} \cup {TtnValue[k] : k \in DOMAIN TtnValue}] :
               \A k \in K : d[k] \in {None, <<>>, TtnValue[k]}} :
           K \in SUBSET DOMAIN TtnValue}

\* the orders as _extract_ttn sees them
TtnOrders ==
    [delivery_provider_data :
         [kind : {"missing", "null"}, items : {EmptyDict}]
         \cup [kind : {"dict"}, items : DeliveryDicts],
     delivery_note : {None, <<>>, <<"N", "P", "1">>}]

\* the state of the processor does not matter to the helpers
Idle ==
    /\ order_status = [o \in Orders |-> "delivered"]
    /\ order_ttn = [o \in Orders |-> FALSE]
    /\ ledger_file = [state |-> "absent", ids |-> <<>>]
    /\ pc = "loop"
    /\ processed_orders = {}
    /\ startup_mode = FALSE
    /\ shop = 1
    /\ tstatus = 1
    /\ queue = <<>>
    /\ item = 0
    /\ cycle = MaxCycles
    /\ notified = [o \in Orders |-> "no"]
    /\ accounted = {}
    /\ delivered = NotKept
    /\ seeded = TRUE
    /\ accepted = {}
    /\ last_update_id = 0
    /\ local_notes = <<>>
    /\ notes_files = NoNotesFiles
    /\ updates = NoUpdates
    /\ batch = <<>>
    /\ ev = NoEv

\* the arguments of one call
HelpersInit ==
    /\ Idle
    /\ \/ call \in [fn : {"_parse_private_note"}, done : {FALSE}, note : Notes]
       \/ call \in [fn : {"lookup"}, done : {FALSE}, sku : Skus,
                    local_notes : Stores]
       \/ call \in [fn : {"resolve"}, done : {FALSE}, product_data : ProductData,
                    parent_data : ParentData, sku : Skus \cup {None},
                    local_notes : Stores]
       \/ call \in [fn : {"get_orders", "get_product", "set_order_status"},
                    done : {FALSE}, id_kind : OrderIdKinds,
                    response : Responses]
       \/ call \in [fn : {"_extract_ttn"}, done : {FALSE}, order : TtnOrders]
       \/ call \in [fn : {"load"}, done : {FALSE},
                    ledger : [state : FileStates, ids : {<<>>, <<"1">>}],
                    json_state : FileStates, excel_state : FileStates]

Others == <<upstream, ledger_file, pc, processed_orders, startup_mode, shop,
            tstatus, queue, item, cycle, history, seeded, accepted, bot, ev>>

\* _parse_private_note and the supplier line made of its result
ParseNote ==
    /\ call.fn = "_parse_private_note" /\ ~call.done
    /\ LET note_data == _parse_private_note(call.note)
       IN call' = [fn |-> call.fn, done |-> TRUE, note |-> call.note,
                   note_data |-> note_data,
                   supplier |-> SupplierLine(note_data)]
    /\ UNCHANGED Others

\* the fallback store is asked for a SKU
Lookup ==
    /\ call.fn = "lookup" /\ ~call.done
    /\ LET r == LookupSku(call.local_notes, call.sku)
       IN call' = [fn |-> call.fn, done |-> TRUE, sku |-> call.sku,
                   local_notes |-> call.local_notes,
                   note |-> r.note, steps |-> r.steps]
    /\ UNCHANGED Others

\* the note of a line item is resolved
Resolve ==
    /\ call.fn = "resolve" /\ ~call.done
    /\ LET r == ResolveNote(call.product_data, call.parent_data, call.sku,
                            call.local_notes)
       IN call' = [fn |-> call.fn, done |-> TRUE,
                   product_data |-> call.product_data,
                   parent_data |-> call.parent_data, sku |-> call.sku,
                   local_notes |-> call.local_notes,
                   note |-> r.note, steps |-> r.steps]
    /\ UNCHANGED Others

\* one call of a gateway method
GatewayCall ==
    /\ call.fn \in {"get_orders", "get_product", "set_order_status"}
    /\ ~call.done
    /\ \E out \in GatewayReturns(call.fn, call.id_kind, call.response) :
        call' = [fn |-> call.fn, done |-> TRUE, id_kind |-> call.id_kind,
                 response |-> call.response, result |-> out]
    /\ UNCHANGED Others

\* the two loads of the constructor
LoadFiles ==
    /\ call.fn = "load" /\ ~call.done
    /\ call' = [fn |-> call.fn, done |-> TRUE, ledger |-> call.ledger,
                json_state |-> call.json_state,
                excel_state |-> call.excel_state,
                raised |-> LoadRaises(call.ledger),
                processed_orders |-> _load_processed_orders(call.ledger),
                local_notes |-> _load_local_notes(call.json_state,
                                                  call.excel_state)]
    /\ UNCHANGED Others

\* the reference of an order and the test of lines 242-243 on it
ExtractTtn ==
    /\ call.fn = "_extract_ttn" /\ ~call.done
    /\ LET ttn == _extract_ttn(call.order)
       IN call' = [fn |-> call.fn, done |-> TRUE, order |-> call.order,
                   ttn |-> ttn, qualifies |-> Truthy(ttn)]
    /\ UNCHANGED Others

HelpersNext ==
    \/ ExtractTtn
    \/ ParseNote
    \/ Lookup
    \/ Resolve
    \/ GatewayCall
    \/ LoadFiles

SpecHelpers == HelpersInit /\ [][HelpersNext]_vars

\* ---- auto-accept on its own ----
\* orders of the marketplace: enough for one shop to hold two of them
AcceptOrders == 1..(NumShops + 1)

\* a cycle is about to run auto_accept_new_orders: any orders pending or
\* received, with or without shipping reference, any of them in the ledger
AcceptInit ==
    /\ order_status \in [AcceptOrders -> {"pending", "received"}]
    /\ order_ttn \in [AcceptOrders -> BOOLEAN]
    /\ processed_orders \in SUBSET {IdStr(o) : o \in AcceptOrders}
    /\ ledger_file = [state |-> "ok", ids |-> JsonList(processed_orders)]
    /\ startup_mode \in BOOLEAN
    /\ cycle = IF startup_mode THEN 1 ELSE MaxCycles
    /\ pc = "accept"
    /\ shop = 1
    /\ tstatus = 1
    /\ queue = <<>>
    /\ item = 0
    /\ notified = [o \in Orders |-> "no"]
    /\ accounted = {}
    /\ delivered = NotKept
    /\ seeded = TRUE
    /\ accepted = {}
    /\ call = NoCall
    /\ last_update_id = 0
    /\ local_notes = <<>>
    /\ notes_files = NoNotesFiles
    /\ updates = NoUpdates
    /\ batch = <<>>
    /\ ev = NoEv

AcceptNext ==
    \/ AutoAcceptFetch
    \/ AutoAcceptOrder

SpecAccept == AcceptInit /\ [][AcceptNext]_vars

\* ---- the cycles of a running processor, with the deliveries recorded ----
\* a processor in normal mode after a cycle, its ledger on file, every order
\* in a status the cycle looks at, with or without shipping reference
DeliveryInit ==
    /\ order_status \in [Orders -> {"pending"} \cup Range(TARGET_STATUSES)]
    /\ order_ttn \in [Orders -> BOOLEAN]
    /\ processed_orders \in SUBSET {IdStr(o) : o \in Orders}
    /\ ledger_file = [state |-> "ok", ids |-> JsonList(processed_orders)]
    /\ pc = "loop"
    /\ startup_mode = FALSE
    /\ shop = 1
    /\ tstatus = 1
    /\ queue = <<>>
    /\ item = 0
    /\ cycle = 1
    /\ notified = [o \in Orders |-> "no"]
    /\ accounted = {o \in Orders : IdStr(o) \in processed_orders}
    /\ delivered = [kept |-> TRUE, orders |-> {}]
    /\ seeded = TRUE
    /\ accepted = {}
    /\ call = NoCall
    /\ last_update_id = 0
    /\ local_notes = <<>>
    /\ notes_files = NoNotesFiles
    /\ updates = NoUpdates
    /\ batch = <<>>
    /\ ev = NoEv

DeliveryNext ==
    \/ BeginCycle
    \/ CheckTelegramUpdates
    \/ AutoAcceptFetch
    \/ AutoAcceptOrder
    \/ ScanFetch
    \/ ProcessSingleOrder
    \/ DispatchItem
    \/ FinishOrder
    \/ CycleEnd

SpecDelivery == DeliveryInit /\ [][DeliveryNext]_vars

\* ---- the inbound-file check on its own ----
\* number of updates that are sent to the bot
MaxUpdates == 3

\* line 376: the only file name that is taken
SnapshotName == "prom_import_data.json"

\* what an update carries: the snapshot under its name, a document with
\* another name, no document
FileNames == {SnapshotName, "prom_import_data (1).json", "none"}

storeA == <<[key |-> MIN_123_1, note |-> noteA]>>
storeB == <<[key |-> MIN_123_4, note |-> noteB]>>
storeE == <<[key |-> <<"M", "I", "N">>, note |-> noteB]>>

NoFile == [state |-> "absent", notes |-> <<>>]
TornFile == [state |-> "corrupt", notes |-> <<>>]

\* the uploaded documents: one that does not parse, or a mapping
Uploads ==
    {TornFile} \cup {[state |-> "ok", notes |-> st] :
                        st \in {storeA, storeA \o storeB}}

\* the updates that can be sent
UpdateKinds ==
    [file_name : {SnapshotName}, upload : Uploads]
    \cup [file_name : FileNames \ {SnapshotName, "none"},
          upload : {[state |-> "ok", notes |-> storeB]}]
    \cup [file_name : {"none"}, upload : {NoFile}]

\* lines 385-397 for a snapshot: all of it runs; get_file or the download
\* raises before the file is touched; the download raises after part of the
\* file was written; send_message raises
UpdateOutcomes == {"ok", "no_download", "torn_download", "no_ack"}

\* variant: the uploaded entries are added to the store
Reloaded_merged(old_notes, new_notes) == old_notes \o new_notes

\* line 391: self.local_notes = new_notes
Reloaded(old_notes, new_notes) == new_notes

\* line 396: the acknowledgement
AckMessage(n) == <<"Database updated! Loaded ", ToString(n), " items.">>

\* a running processor with no order in sight; the snapshot and the legacy
\* spreadsheet exist or not, and the store is what the constructor loaded
UpdatesInit ==
    /\ order_status = [o \in Orders |-> "delivered"]
    /\ order_ttn = [o \in Orders |-> FALSE]
    /\ ledger_file = [state |-> "ok", ids |-> <<>>]
    /\ pc = "loop"
    /\ processed_orders = {}
    /\ startup_mode = TRUE
    /\ shop = 1
    /\ tstatus = 1
    /\ queue = <<>>
    /\ item = 0
    /\ cycle = 0
    /\ notified = [o \in Orders |-> "no"]
    /\ accounted = {}
    /\ delivered = NotKept
    /\ seeded = TRUE
    /\ accepted = {}
    /\ call = NoCall
    /\ last_update_id = 0
    /\ notes_files \in [json : {NoFile, [state |-> "ok", notes |-> storeA]},
                         excel : {NoFile, [state |-> "ok", notes |-> storeE]}]
    /\ local_notes = LoadNotes(notes_files)
    /\ updates = NoUpdates
    /\ batch = <<>>
    /\ ev = NoEv

\* somebody sends a message to the bot; it is seen at the next poll
PostUpdate ==
    /\ pc = "updates"
    /\ updates.next <= MaxUpdates
    /\ \E u \in UpdateKinds :
        updates' = [next |-> updates.next + 1,
                    pending |-> Append(updates.pending,
                                       [update_id |-> updates.next,
                                        file_name |-> u.file_name,
                                        upload |-> u.upload])]
    /\ UNCHANGED <<upstream, ledger_file, pc, processed_orders, startup_mode,
                   shop, tstatus, queue, item, cycle, history, seeded, accepted,
                   call, last_update_id, local_notes, notes_files, batch, ev>>

\* check_telegram_updates, lines 370-397: one pass of the loop over the
\* updates; an exception leaves the loop (line 399)
HandleUpdate ==
    /\ pc = "updating"
    /\ LET update == Head(batch)
       IN /\ last_update_id' = update.update_id
          /\ \E out \in IF update.file_name = SnapshotName THEN UpdateOutcomes
                         ELSE {"skipped"} :
              LET downloaded == out \in {"ok", "no_ack"}
                  files == IF downloaded
                           THEN [notes_files EXCEPT !.json = update.upload]
                           ELSE IF out = "torn_download"
                           THEN [notes_files EXCEPT !.json = TornFile]
                           ELSE notes_files
                  new_notes == LoadNotes(files)
                  raised == out \in {"no_download", "torn_download", "no_ack"}
              IN /\ notes_files' = files
                 /\ local_notes' = IF downloaded
                                   THEN Reloaded(local_notes, new_notes)
                                   ELSE local_notes
                 /\ ev' = IF downloaded
                          THEN [NoEv EXCEPT !.op = "ack", !.texts = 1,
                                            !.textOk = (out = "ok"),
                                            !.textMsg = AckMessage(Len(new_notes))]
                          ELSE NoEv
                 /\ batch' = IF raised THEN <<>> ELSE Tail(batch)
                 /\ pc' = IF batch' = <<>> THEN StepAfter("updates")
                          ELSE "updating"
                 /\ call' = [fn |-> "handle_update", update |-> update,
                             outcome |-> out, before |-> local_notes]
    /\ UNCHANGED <<upstream, ledger_file, processed_orders, startup_mode, shop,
                   tstatus, queue, item, cycle, history, seeded, accepted,
                   updates>>

UpdatesNext ==
    \/ PostUpdate
    \/ BeginCycle
    \/ CheckTelegramUpdates
    \/ HandleUpdate
    \/ AutoAcceptFetch
    \/ ScanFetch
    \/ CycleEnd

SpecUpdates == UpdatesInit /\ [][UpdatesNext]_vars

\* ---- properties ----

\* a fetched order the order scan (_process_single_order) is about to handle
Met == pc = "orders" /\ queue # <<>>

\* the last step issued a call of the order scan for order o
ScanCall(e, o) == e.by = "scan" /\ e.order = o /\ e.op \in {"dispatch", "status"}

\* C1: for every order, the notification dispatch of _process_single_order
\* is performed in at most one polling cycle, over all cycles, failed steps
\* and restarts.
C1_AtMostOnceNotification == \A o \in Orders : notified[o] # "again"

\* C2 (as claimed): once an order id is in the ledger, no step issues a
\* send_photo/send_message or a set_order_status call for that order,
\* whichever fetch returned it.
C2_NoSideEffectOnceLedgered ==
    [][\A o \in Orders :
         IdStr(o) \in processed_orders =>
             ~(ev'.order = o /\ ev'.op \in {"dispatch", "status"})]_vars

\* C2 (amended): while an order id is in the ledger, the order scan issues no
\* send and no set_order_status call for it and does not add it again; only
\* the pending fetch of auto-accept still calls set_order_status for it.
C2_NoScanSideEffectWhileLedgered ==
    [][\A o \in Orders :
         IdStr(o) \in processed_orders =>
             ~(ScanCall(ev', o) \/ (ev'.order = o /\ ev'.op = "silent"))]_vars

\* a ledgered order was fetched again by a normal-mode scan and skipped
C2_Witness ==
    /\ ev.op = "skip" /\ ev.res = "ledger"
    /\ ~startup_mode
    /\ IdStr(ev.order) \in processed_orders

\* C3 (as claimed): an order without a shipping reference is never notified
\* and its id is never in the ledger, in any reachable state.
C3_NoTtnNeverLedgered ==
    \A o \in Orders :
        ~order_ttn[o] =>
            /\ notified[o] = "no"
            /\ pc # "off" => IdStr(o) \notin processed_orders

\* C3 (amended): an order without a shipping reference is never notified, and
\* no step of a polling cycle adds its id to the ledger; only the first-run
\* seeding of the constructor adds ids regardless of the reference.
C3_NoTtnNeverAddedByScan ==
    /\ [](\A o \in Orders : ~order_ttn[o] => notified[o] = "no")
    /\ [][\A o \in Orders :
            (~order_ttn[o] /\ pc # "seed" /\ IdStr(o) \notin processed_orders)
                => IdStr(o) \notin processed_orders']_vars

\* an unledgered order without reference was met by a normal-mode scan
C3_Witness ==
    /\ ev.op = "skip" /\ ev.res = "no_ttn"
    /\ ~startup_mode
    /\ ~order_ttn[ev.order]
    /\ IdStr(ev.order) \notin processed_orders

\* C4: in startup mode the order scan issues no send and no set_order_status
\* call, and every unledgered order with a shipping reference it meets is
\* added to the ledger by that step.
C4_StartupSilent ==
    /\ []((pc # "off" /\ startup_mode) =>
              ~(ev.by = "scan" /\ ev.op \in {"dispatch", "status"}))
    /\ [][(Met /\ pc' # "off" /\ startup_mode
              /\ IdStr(Head(queue).id) \notin processed_orders
              /\ Head(queue).ttn)
            => (IdStr(Head(queue).id) \in processed_orders'
                  /\ ev'.op = "silent" /\ ev'.order = Head(queue).id)]_vars

\* the startup-mode scan has silently marked an order
C4_Witness ==
    /\ ev.op = "silent"
    /\ startup_mode
    /\ pc # "off"
    /\ IdStr(ev.order) \in processed_orders
    /\ notified[ev.order] = "no"

\* C5: within a run startup_mode is true from construction to the end of the
\* first cycle and false afterwards; it changes only at the end of the first
\* cycle (to false) and at the construction of a new process.
C5_StartupModeClearedOnce ==
    /\ [](pc # "off" =>
            (startup_mode <=> (cycle = 0 \/ (cycle = 1 /\ pc # "loop"))))
    /\ [][startup_mode' # startup_mode =>
            \/ pc = "cycle_end" /\ cycle = 1 /\ ~startup_mode'
            \/ pc = "off"]_vars

\* a third cycle of a run is scanning orders in normal mode
C5_Witness == cycle = 3 /\ pc = "orders" /\ ~startup_mode

\* C6: in every state of a constructed, running process the ledger holds
\* exactly the ids of the orders whose notification cycle completed or whose
\* notification was suppressed.
C6_LedgerIffAccounted ==
    pc \notin {"off"} \cup Constructing =>
        processed_orders = {IdStr(o) : o \in accounted}

\* C7: the ledger only grows, within a run and over a restart that reloads it
\* from its file (the set a constructor was still seeding when the process
\* ended is not yet a ledger).
C7_LedgerOnlyGrows ==
    [][(pc \in Constructing /\ pc' = "off")
         \/ processed_orders \subseteq processed_orders']_vars

\* C8: the dispatch of a line item makes at least one send attempt, and when
\* its send_photo fails exactly one send_message with the same message follows.
C8_PhotoFailureFallsBackToText ==
    ev.op = "dispatch" =>
        /\ ev.photos + ev.texts >= 1
        /\ (ev.photos = 1 /\ ~ev.photoOk) =>
               (ev.texts = 1 /\ ev.textMsg = ev.photoMsg)

\* a send_photo failed and the text send was made
C8_Witness ==
    /\ ev.op = "dispatch"
    /\ ev.photos = 1 /\ ~ev.photoOk
    /\ ev.texts = 1

\* C9: the step after the last dispatch of a normal-mode order is one
\* set_order_status(order, "received") call, whatever status the order was
\* fetched under, and when the call returns true or false the id is in the
\* ledger.
C9_StatusThenLedger ==
    /\ []((ev.op = "status" /\ ev.by = "scan") =>
            /\ ev.arg = "received"
            /\ ev.res \in {"true", "false"} => IdStr(ev.order) \in processed_orders)
    /\ [][/\ (pc = "finish" /\ pc' # "off") =>
                (ev'.op = "status" /\ ev'.by = "scan" /\ ev'.order = Head(queue).id)
          /\ (ev'.op = "status" /\ ev'.by = "scan") => pc = "finish"]_vars

\* an order fetched as "processing" was ledgered after a failed status call
C9_Witness ==
    /\ ev.op = "status" /\ ev.by = "scan"
    /\ ev.res = "false"
    /\ ev.src = "processing"
    /\ IdStr(ev.order) \in processed_orders

\* C10: after _save_processed_order(id) returns, the file holds the in-memory
\* set with every id once, id among them; a second call for the same id
\* changes neither the set nor the file.
C10_SaveIdempotentWriteThrough ==
    /\ []((ev.op = "save" /\ ev.res = "ok") =>
            /\ ledger_file.state = "ok"
            /\ Range(ledger_file.ids) = processed_orders
            /\ \A x \in processed_orders : Count(x, ledger_file.ids) = 1
            /\ Count(IdStr(ev.order), ledger_file.ids) = 1)
    /\ [][(ev'.op = "save" /\ ev'.res = "ok" /\ ev'.item = 2) =>
            /\ processed_orders' = processed_orders
            /\ ledger_file'.state = ledger_file.state
            /\ Range(ledger_file'.ids) = Range(ledger_file.ids)
            /\ Len(ledger_file'.ids) = Len(ledger_file.ids)]_vars

\* the same id was saved twice in a row
C10_Witness ==
    /\ ev.op = "save" /\ ev.res = "ok" /\ ev.item = 2
    /\ Cardinality(processed_orders) >= 2

\* C11 (as claimed): over any sequence of process starts the first-run
\* seeding is performed at most once; a start after a seeding has been
\* performed does not seed again, even when it finds the ledger empty.
C11_SeededAtMostOnce ==
    [][(pc = "off" /\ pc' = "seed") => ~seeded]_vars

\* the first non-empty text of a chain, <<>> when there is none
FirstNonEmpty(chain) ==
    IF \E i \in 1..Len(chain) : Truthy(chain[i])
    THEN chain[CHOOSE i \in 1..Len(chain) :
                 Truthy(chain[i]) /\ \A j \in 1..(i - 1) : ~Truthy(chain[j])]
    ELSE <<>>

\* the note of the first stored key that starts with the text before the last
\* '-' of the SKU, <<>> when the SKU has no '-' or no key starts so
PrefixNote(store, sku) ==
    LET hits == {i \in 1..Len(store) :
                    startswith(store[i].key, BeforeLast(sku, "-"))}
    IN IF Find(sku, "-") = 0 \/ hits = {} THEN <<>>
       ELSE store[CHOOSE i \in hits : \A j \in hits : i <= j].note

\* the four results of the chain: own note, parent's note, exact SKU, prefix
NoteChain(c) ==
    LET present == c.product_data.kind = "product"
    IN << IF present THEN NoteOf(c.product_data) ELSE <<>>,
          IF present /\ Truthy(c.product_data.variation_base_id)
                     /\ c.parent_data.kind = "product"
          THEN NoteOf(c.parent_data) ELSE <<>>,
          IF Truthy(c.sku) THEN DictGet(c.local_notes, c.sku, <<>>) ELSE <<>>,
          IF Truthy(c.sku) THEN PrefixNote(c.local_notes, c.sku) ELSE <<>> >>

ChainSteps == <<"own", "parent", "exact", "fuzzy">>

\* C12 (as claimed): for every outcome of the product fetch the resolved note
\* is the first non-empty result of the chain own note, parent's note, store
\* by exact SKU, store by prefix, and no step after the one that found a note
\* is consulted.
C12_NoteIsFirstOfChain ==
    (call.fn = "resolve" /\ call.done) =>
        /\ call.note = FirstNonEmpty(NoteChain(call))
        /\ \A i \in 1..4 :
              (\E j \in 1..(i - 1) : Truthy(NoteChain(call)[j]))
                  => ChainSteps[i] \notin Range(call.steps)

\* the key of the SKU is stored
Stored(store, sku) == \E i \in 1..Len(store) : store[i].key = sku

\* the two lookups of the example: store {MIN-123-1: noteA}
LookupExamples ==
    call.local_notes = <<[key |-> MIN_123_1, note |-> noteA]>> =>
        /\ call.sku = MIN_123_4 => call.note = noteA
        /\ call.sku = MIN_999_1 => call.note = <<>>

\* C13 (as claimed): an exact key match returns its note; otherwise the note
\* of the first stored key that starts with the text before the last '-' of
\* the SKU; otherwise nothing.
C13_LookupExactThenPrefix ==
    (call.fn = "lookup" /\ call.done) =>
        /\ call.note = IF Stored(call.local_notes, call.sku)
                       THEN DictGet(call.local_notes, call.sku, <<>>)
                       ELSE PrefixNote(call.local_notes, call.sku)
        /\ LookupExamples

\* C13 (amended): an exact key match with a non-empty note returns that note;
\* otherwise (no such key, or its note is empty) the note of the first stored
\* key that starts with the text before the last '-' of the SKU; otherwise
\* nothing.
C13_LookupNonEmptyExactThenPrefix ==
    (call.fn = "lookup" /\ call.done) =>
        /\ call.note = IF Truthy(DictGet(call.local_notes, call.sku, <<>>))
                       THEN DictGet(call.local_notes, call.sku, <<>>)
                       ELSE PrefixNote(call.local_notes, call.sku)
        /\ LookupExamples

\* MIN-123-4 was looked up in the store {MIN-123-1: noteA}
C13_Witness ==
    /\ call.fn = "lookup" /\ call.done
    /\ call.local_notes = <<[key |-> MIN_123_1, note |-> noteA]>>
    /\ call.sku = MIN_123_4
    /\ call.note = noteA

\* the trimmed segments of a note
Segments(note) ==
    LET segs == split(note, "|") IN [i \in 1..Len(segs) |-> strip(segs[i])]

IsPrice(seg) == startswith(lower(seg), <<"p", "r", "i", "c", "e", ":">>)
IsArt(seg) == ~IsPrice(seg) /\ startswith(lower(seg), <<"a", "r", "t", ":">>)
IsOther(seg) == ~IsPrice(seg) /\ ~IsArt(seg)
NonEmpty(text) == text # <<>>

\* a segment without its leading supplier label
Unlabelled(seg) ==
    IF startswith(lower(seg), <<"s", "u", "p", "p", "l", "i", "e", "r", ":">>)
    THEN strip(AfterFirst(seg, ":")) ELSE seg

\* the segments that are neither price nor art, unlabelled, in their order
OtherSegments(note) ==
    LET others == SelectSeq(Segments(note), IsOther)
    IN [i \in 1..Len(others) |-> Unlabelled(others[i])]

\* field key holds the trimmed text after the first colon of the last segment
\* at the positions idx, and is missing when there is none
Routed(data, segs, key, idx) ==
    /\ key \in DOMAIN data <=> idx # {}
    /\ idx # {} =>
          data[key] = strip(AfterFirst(
                         segs[CHOOSE i \in idx : \A j \in idx : i >= j], ":"))

PriceAndArtRouted ==
    LET segs == Segments(call.note)
    IN /\ Routed(call.note_data, segs, "purchase_price",
                 {i \in 1..Len(segs) : IsPrice(segs[i])})
       /\ Routed(call.note_data, segs, "model",
                 {i \in 1..Len(segs) : IsArt(segs[i])})

ParseExamples ==
    /\ call.note = Example1 =>
          call.note_data = [purchase_price |-> <<"1", "0", "0">>, supplier |-> <<"A", "c", "m", "e">>,
                            model |-> <<"X", "1">>]
    /\ call.note = Example2 =>
          call.note_data = [supplier |-> <<"A", "c", "m", "e", " ", "C", "o", "r", "p">>, purchase_price |-> <<"1", "0", "0">>]

\* C14 (as claimed): a 'price:' segment sets purchase_price and an 'art:'
\* segment sets model to the trimmed text after the first colon; every other
\* segment, its 'supplier:' label stripped, goes into supplier, which is those
\* segments in their order joined with ' | '.
C14_ParseRoutesEverySegment ==
    (call.fn = "_parse_private_note" /\ call.done /\ Truthy(call.note)) =>
        /\ PriceAndArtRouted
        /\ call.note_data["supplier"] = join(OtherSegments(call.note), Separator)
        /\ ParseExamples

\* C14 (amended): as claimed, except that a segment which is empty once
\* trimmed and unlabelled is left out of supplier.
C14_ParseRoutesNonEmptySegments ==
    (call.fn = "_parse_private_note" /\ call.done /\ Truthy(call.note)) =>
        /\ PriceAndArtRouted
        /\ call.note_data["supplier"]
             = join(SelectSeq(OtherSegments(call.note), NonEmpty), Separator)
        /\ ParseExamples

\* a note with an empty segment before the supplier text was parsed
C14_Witness ==
    /\ call.fn = "_parse_private_note" /\ call.done
    /\ call.note = <<"|", "A", "c", "m", "e">>
    /\ call.note_data["supplier"] = <<"A", "c", "m", "e">>

\* C15 (as claimed): when no supplier text is recovered from the note, the
\* supplier line of the message is the 'unknown supplier' text and never
\* empty; an empty or absent note parses to an empty record.
C15_UnknownSupplierSentinel ==
    (call.fn = "_parse_private_note" /\ call.done) =>
        /\ Get(call.note_data, "supplier", <<>>) = <<>> =>
              (call.supplier = UNKNOWN_SUPPLIER /\ call.supplier # <<>>)
        /\ ~Truthy(call.note) => DOMAIN call.note_data = {}

\* C16 (as claimed): get_orders, get_product and set_order_status never raise
\* to their caller, and a transport error, a status outside 2xx or a malformed
\* body gives the soft failure value.
C16_GatewayNeverRaises ==
    (call.fn \in {"get_orders", "get_product", "set_order_status"} /\ call.done) =>
        /\ call.result # "raise"
        /\ (call.id_kind = "numeric"
              /\ call.response \in {"transport_error", "http_error",
                                    "invalid_json", "not_object"})
             => call.result = "soft"

\* C17 (as claimed): no failure in the constructor or in a step of a cycle
\* ends the process; it stops by external termination only.
C17_NoErrorIsFatal == ev.op # "fatal"

\* C18 (as claimed): a ledger file that cannot be read or parsed loads as the
\* empty ledger without an exception, and a snapshot that cannot be read or
\* parsed leaves the mapping empty (when no legacy spreadsheet takes its place).
C18_BadFileLoadsEmpty ==
    (call.fn = "load" /\ call.done) =>
        /\ call.ledger.state \in {"corrupt", "unreadable"} =>
              (~call.raised /\ call.processed_orders = {})
        /\ (call.json_state \in {"corrupt", "unreadable"}
              /\ call.excel_state # "ok") => call.local_notes = "empty"

\* the step of the cycle a position belongs to: 1 the inbound-file check,
\* 2 auto-accept, 3 the order scan, 4 the end of the cycle, 0 outside a cycle
Phase(p) ==
    CASE p \in {"updates", "updating"} -> 1
      [] p \in {"accept", "accepting"} -> 2
      [] p \in {"scan", "orders", "items", "finish"} -> 3
      [] p = "cycle_end" -> 4
      [] OTHER -> 0

\* C19: a cycle starts with the inbound-file check, every step is followed by
\* the next one only (file check, auto-accept, order scan, end of cycle), the
\* status calls of auto-accept are all made before the scan of the cycle
\* begins, and a list that the scan's fetch of 'received' returns for a shop
\* holds the orders of that shop that auto-accept moved to received in this
\* cycle.
C19_StepsInOrder ==
    /\ [][pc' # "off" =>
            /\ Phase(pc) = 0 => (Phase(pc') = 0 \/ (pc = "loop" /\ pc' = "updates"))
            /\ Phase(pc) \in 1..3 => Phase(pc') \in {Phase(pc), Phase(pc) + 1}
            /\ Phase(pc) = 4 => pc' \in {"cycle_end", "loop"}]_vars
    /\ [][(ev'.op = "status" /\ ev'.by = "accept") => Phase(pc) = 2]_vars
    /\ [][(pc = "scan" /\ pc' = "orders" /\ TARGET_STATUSES[tstatus] = "received") =>
            \A o \in accepted :
                ShopOf(o) = shop =>
                    \E i \in 1..Len(queue') :
                        queue'[i].id = o /\ order_status[o] = "received"]_vars

\* the scan of a normal cycle dispatches for an order that auto-accept moved
\* to received in the same cycle
C19_Witness ==
    /\ ev.op = "dispatch" /\ ev.by = "scan"
    /\ ev.order \in accepted
    /\ ev.src = "received"
    /\ Phase(pc) = 3

\* C20 (as claimed): auto-accept issues set_order_status(order, 'received')
\* for every order the pending fetch of a shop returned, whatever its shipping
\* reference and whether or not it is in the ledger, and neither changes the
\* ledger nor sends a notification.
C20_AcceptsEveryPendingOrder ==
    /\ [][pc = "accepting" =>
            /\ ev'.op = "status" /\ ev'.by = "accept" /\ ev'.arg = "received"
            /\ ev'.order = Head(queue).id
            /\ pc' = "accepting" \/ Tail(queue) = <<>>]_vars
    /\ [][Phase(pc) = 2 =>
            /\ ev'.op \in {"none", "status"}
            /\ UNCHANGED <<processed_orders, ledger_file>>]_vars

\* C21: in normal mode the line items of an order are dispatched one after
\* the other, the set_order_status call is made only after the dispatch of
\* the last line item, and the order scan adds an id to the ledger only in
\* the step that has made the status call for it.
C21_DispatchStatusLedger ==
    /\ [](pc = "finish" =>
            LET o == Head(queue).id
            IN ItemsOf(o) > 0 =>
                  (ev.op = "dispatch" /\ ev.order = o /\ ev.item = ItemsOf(o)))
    /\ [][ev'.op = "dispatch" =>
            /\ pc = "items" /\ ev'.item = item /\ ev'.order = Head(queue).id
            /\ item > 1 => (ev.op = "dispatch" /\ ev.item = item - 1
                               /\ ev.order = ev'.order)]_vars
    /\ [][\A o \in Orders :
            (Phase(pc) = 3 /\ ~startup_mode /\ IdStr(o) \notin processed_orders
                /\ IdStr(o) \in processed_orders')
              => (pc = "finish" /\ ev'.op = "status" /\ ev'.by = "scan"
                    /\ ev'.order = o)]_vars

\* an order with more than one line item was dispatched, its status call
\* returned true and its id is in the ledger
C21_Witness ==
    /\ ev.op = "status" /\ ev.by = "scan" /\ ev.res = "true"
    /\ ItemsOf(ev.order) > 1
    /\ notified[ev.order] = "now"
    /\ IdStr(ev.order) \in processed_orders

\* C22 (as claimed): an unledgered order without shipping reference is left
\* unledgered by the scan, and once the scan of a normal-mode cycle takes up
\* an unledgered order with a reference, it has notified the order and added
\* it to the ledger when it goes on to the next order or shop.
C22_NotifiedOnceReferenceAppears ==
    [][/\ (Met /\ ~Head(queue).ttn /\ pc' # "off") =>
              (IdStr(Head(queue).id) \in processed_orders'
                   <=> IdStr(Head(queue).id) \in processed_orders)
       /\ (pc \in {"items", "finish"} /\ pc' \notin {"items", "finish", "off"}) =>
              /\ IdStr(Head(queue).id) \in processed_orders'
              /\ notified'[Head(queue).id] # "no"]_vars

\* C23 (as claimed): every order that is visible in a monitored status of a
\* shop when the first-run seeding of the constructor fetches that status is
\* in the ledger from then on, and the constructor emits no notification.
C23_SeedingMarksEveryVisibleOrder ==
    /\ [][(pc = "seed" /\ pc' \in Constructing \cup {"startmsg"}) =>
            \A o \in Visible(shop, TARGET_STATUSES[tstatus]) :
                IdStr(o) \in processed_orders']_vars
    /\ [][(pc \in Constructing) => (ev'.op # "dispatch" /\ ev'.op # "status")]_vars

\* C27: the order scan goes through the shops in credential order; a step
\* that ends the scan of a shop, by an exception or after its last status,
\* is followed by the scan of the next shop, and the scan of a cycle ends at
\* the last shop only.
C27_ShopIsolation ==
    [][(Phase(pc) = 3 /\ pc' # "off") =>
          /\ Phase(pc') = 3 =>
                \/ shop' = shop
                \/ shop' = shop + 1 /\ pc' = "scan" /\ tstatus' = 1
          /\ Phase(pc') # 3 => (pc' = "cycle_end" /\ shop = NumShops)]_vars

\* the status call for an order of the first shop raised and the scan is
\* about to fetch the orders of the second shop
C27_Witness ==
    /\ ev.op = "status" /\ ev.by = "scan" /\ ev.res = "raise"
    /\ ShopOf(ev.order) = 1
    /\ pc = "scan" /\ shop = 2 /\ tstatus = 1

\* what the key holds for the claim: a non-empty text, or nothing
Held(order, key) ==
    LET d == order.delivery_provider_data
    IN IF d.kind = "dict" /\ key \in DOMAIN d.items /\ d.items[key] # None
       THEN d.items[key] ELSE <<>>

\* C25: _extract_ttn returns the first non-empty value among the keys
\* declaration_number, ttn and invoice_number of delivery_provider_data, in
\* this order, otherwise delivery_note, otherwise nothing; the order
\* qualifies exactly when the result is non-empty.
C25_ExtractTtnPriority ==
    (call.fn = "_extract_ttn" /\ call.done) =>
        LET o == call.order
            result == IF call.ttn = None THEN <<>> ELSE call.ttn
            note == IF o.delivery_note = None THEN <<>> ELSE o.delivery_note
        IN /\ result =
                 IF Held(o, "declaration_number") # <<>>
                 THEN Held(o, "declaration_number")
                 ELSE IF Held(o, "ttn") # <<>> THEN Held(o, "ttn")
                 ELSE IF Held(o, "invoice_number") # <<>>
                 THEN Held(o, "invoice_number")
                 ELSE note
           /\ call.qualifies <=> result # <<>>

\* declaration_number is empty, ttn and invoice_number and delivery_note hold
\* a text: the result is the text of ttn and the order qualifies
C25_Witness ==
    /\ call.fn = "_extract_ttn" /\ call.done
    /\ Held(call.order, "declaration_number") = <<>>
    /\ "declaration_number" \in DOMAIN call.order.delivery_provider_data.items
    /\ Held(call.order, "ttn") # <<>>
    /\ Held(call.order, "invoice_number") # <<>>
    /\ call.order.delivery_note # None /\ call.order.delivery_note # <<>>
    /\ call.ttn = TtnValue["ttn"]
    /\ call.qualifies

\* the mapping that an uploaded document holds
MappingOf(upload) == IF upload.state = "ok" THEN upload.notes ELSE <<>>

C28_UpdatesHandledOnce ==
    /\ [][last_update_id' >= last_update_id]_vars
    /\ [](\A i \in 1..Len(batch) :
             /\ batch[i].update_id > last_update_id
             /\ i > 1 => batch[i].update_id > batch[i - 1].update_id)
    /\ [][pc = "updating" => last_update_id' = Head(batch).update_id]_vars

\* the download of an update failed in an earlier cycle, and the update that
\* is about to be handled now is a later one
C28_Witness ==
    /\ call.fn = "handle_update"
    /\ call.outcome \in {"no_download", "torn_download"}
    /\ last_update_id = call.update.update_id
    /\ pc = "updating"
    /\ Head(batch).update_id > call.update.update_id

\* C26 (as claimed): a dispatch never delivers both a photo and a text for a
\* line item and attempts the text only when no photo was delivered, and no
\* second message is ever delivered for a line item of an order (here: for
\* its first line item), so that an order with n line items yields at most n
\* delivered messages.
C26_OneMessagePerItem ==
    /\ [](ev.op = "dispatch" =>
            /\ ~(ev.photoOk /\ ev.textOk)
            /\ ev.texts > 0 => ~ev.photoOk)
    /\ [][(ev'.op = "dispatch" /\ ev'.item = 1 /\ (ev'.photoOk \/ ev'.textOk))
            => ev'.order \notin delivered.orders]_vars

====
